---- MODULE Spec2Model ----
(***************************************************************************)
(* RqstRush: an HTTP load generator whose worker pool is restarted when    *)
(* config.json changes.  The repository holds two variants of the program: *)
(*   "simple" : src/main.go           (workers loop forever)               *)
(*   "rl"     : src/unnamed/part_000  (rate-limited: workers range over a  *)
(*                                     jobQueue filled by a producer)      *)
(* Both are modelled here; the variable variant fixes which one runs.    *)
(*                                                                         *)
(* Goroutines: main, MonitorConfig ("mon"), LogStats, the workers and, in  *)
(* the rate-limited variant, one producer per RestartWorkers call.  Every  *)
(* action is one access to shared memory (or to the file system) together  *)
(* with the goroutine-local steps that follow it.  Accesses the code makes *)
(* without synchronisation (workersActive, workerWg, jobQueue,             *)
(* config.Concurrency in RestartWorkers) are word-sized reads and writes:  *)
(* each is its own action, so every order of them is explored.             *)
(***************************************************************************)
EXTENDS Integers, Sequences, FiniteSets, Bags, TLC

\* ---------------------------------------------------------------- bounds
MaxConc == 2      \* largest "concurrency" a config.json of the model holds
MaxMt == 2        \* config.json's modification times are 1..MaxMt
MaxReq == 2       \* successful requests counted before the model stops counting
MaxBurst == 300000  \* requests counted, when they are counted in bursts

\* ------------------------------------------------------- program constants
maxRetries == 3
\* LogStats: if count >= 100000
Milestone == 100000

\* ------------------------------------------------------------ value sets
Callers == {"main", "mon"}

\* target_url values: two well-formed ones and one http.NewRequest rejects.
URLs == {"a", "b", "%"}
Malformed(u) == u = "%"

Config(u, n) == [url |-> u, conc |-> n]
\* var config Config: the zero value of the struct.
ZeroConfig == Config("", 0)
Configs == {Config("a", 1), Config("b", MaxConc), Config("%", 1)}
\* What is at the path config.json: a JSON object that decodes into a Config,
\* text json.Decoder rejects, or nothing (os.Stat and os.Open fail).
Garbage == [is |-> "garbage", cfg |-> ZeroConfig]
Missing == [is |-> "missing", cfg |-> ZeroConfig]
Contents == {[is |-> "json", cfg |-> k] : k \in Configs} \cup {Garbage, Missing}

\* One generation (and, in the rate-limited variant, one channel and one
\* producer) per RestartWorkers call: main's, and one per successful reload.
MaxGen == MaxMt + 1
Gens == 1..MaxGen
\* LoadConfig's and RestartWorkers' locals while no call is in progress.
NoLoad == [fi |-> 0, new |-> [url |-> "", conc |-> 0], ret |-> FALSE,
           cfg0 |-> [url |-> "", conc |-> 0], lm0 |-> 0, statOk |-> FALSE]
NoCall == [i |-> 0, gen |-> 0, n0 |-> 0, found |-> FALSE]
NoChan == [made |-> FALSE, cap |-> 0, len |-> 0, closed |-> FALSE]
NoProd == [st |-> "none", q |-> 0]

VARIABLES
  variant,        \* "simple" (src/main.go) or "rl" (src/unnamed/part_000)
  file,           \* config.json: [mt, content], mt its modification time
  config,         \* var config Config
  lastModTime,    \* var lastModTime time.Time (0: the zero time)
  reqCounter,     \* var reqCounter uint64
  wg,             \* var workerWg sync.WaitGroup: its counter
  wgWaiters,      \* ... and the callers registered as waiting in it
  workersActive,  \* var workersActive bool
  jobQueue,       \* var jobQueue chan struct{}: a channel id, 0 is nil
  chans,          \* the channels made so far: id -> [made, cap, len, closed]
  pc,             \* main's and MonitorConfig's position
  lc,             \* LoadConfig's locals (it never runs twice at once)
  rw,             \* RestartWorkers' locals, per caller
  workers,        \* the worker goroutines: a bag of [pc, gen, q, url, i]
  prod,           \* the producer goroutines, by generation
  statsOn,        \* LogStats is running
  nGen,           \* generations started so far
  crashed,        \* "" or the panic that ended the process
  \* history (not program state)
  reported,       \* sum of the counts LogStats' swaps returned
  completions,    \* requests that completed without a transport error
  spawned,        \* generation -> workers spawned for it
  exited,         \* generation -> workers of it that ran wg.Done
  sinceMilestone, \* sum of the counts of the ticks since startTime was last set
  milestones,     \* times LogStats has logged the 100k time and set startTime anew
  overlap         \* two RestartWorkers calls have been in progress at once

vars == <<variant, file, config, lastModTime, reqCounter, wg, wgWaiters,
          workersActive, jobQueue, chans, pc, lc, rw, workers, prod, statsOn,
          nGen, crashed, reported, completions, spawned, exited,
          sinceMilestone, milestones, overlap>>

envVars == <<file>>
cfgVars == <<config, lastModTime, lc>>
poolVars == <<wg, wgWaiters, workersActive, jobQueue, chans, rw, workers, prod,
              nGen, spawned, exited, overlap>>
msVars == <<sinceMilestone, milestones>>
statVars == <<reqCounter, reported, completions, msVars>>

\* ------------------------------------------------------------------ Init
Init ==
  /\ variant \in {"simple", "rl"}
  /\ file \in [mt : {1}, content : Contents]
  /\ config = ZeroConfig
  /\ lastModTime = 0
  /\ reqCounter = 0
  /\ wg = 0
  /\ wgWaiters = {}
  /\ workersActive = FALSE
  /\ jobQueue = 0
  /\ chans = [q \in Gens |-> NoChan]
  /\ pc = [c \in Callers |-> IF c = "main" THEN "lc_stat" ELSE "off"]
  /\ lc = [fi |-> 0, new |-> ZeroConfig, ret |-> FALSE,
           cfg0 |-> ZeroConfig, lm0 |-> 0, statOk |-> FALSE]
  /\ rw = [c \in Callers |-> NoCall]
  /\ workers = EmptyBag
  /\ prod = [p \in Gens |-> NoProd]
  /\ statsOn = FALSE
  /\ nGen = 0
  /\ crashed = ""
  /\ reported = 0
  /\ completions = 0
  /\ sinceMilestone = 0
  /\ milestones = 0
  /\ spawned = [g \in Gens |-> 0]
  /\ exited = [g \in Gens |-> 0]
  /\ overlap = FALSE

Running == crashed = ""

\* ------------------------------------------------- the configuration file
\* Something outside the program rewrites (or removes) config.json: other
\* content, a later modification time.
FileWrite(x) ==
  /\ Running
  /\ file.mt < MaxMt
  /\ file' = [mt |-> file.mt + 1, content |-> x]
  /\ UNCHANGED <<variant, cfgVars, poolVars, statVars, pc, statsOn, crashed>>

\* ------------------------------------------------------------ LoadConfig
\* The call starts: remember what is stored, for the claims about the call.
LcEnter == [fi |-> 0, new |-> ZeroConfig, ret |-> FALSE,
            cfg0 |-> config, lm0 |-> lastModTime, statOk |-> FALSE]

\* LC_Stat as it would be without the comparison of the modification time.
LC_StatNoCompare(c) ==
  /\ Running
  /\ pc[c] = "lc_stat"
  /\ IF file.content = Missing
       THEN /\ lc' = [lc EXCEPT !.ret = FALSE, !.statOk = FALSE]
            /\ pc' = [pc EXCEPT ![c] = "lc_ret"]
       ELSE /\ lc' = [lc EXCEPT !.fi = file.mt, !.statOk = TRUE]
            /\ pc' = [pc EXCEPT ![c] = "lc_open"]
  /\ UNCHANGED <<variant, envVars, config, lastModTime, poolVars, statVars,
                 statsOn, crashed>>

\* os.Stat, then the comparison of ModTime() with lastModTime.
LC_Stat(c) ==
  /\ Running
  /\ pc[c] = "lc_stat"
  /\ IF file.content = Missing
       THEN /\ lc' = [lc EXCEPT !.ret = FALSE, !.statOk = FALSE]
            /\ pc' = [pc EXCEPT ![c] = "lc_ret"]
       ELSE IF file.mt = lastModTime
         THEN /\ lc' = [lc EXCEPT !.fi = file.mt, !.ret = FALSE, !.statOk = TRUE]
              /\ pc' = [pc EXCEPT ![c] = "lc_ret"]
         ELSE /\ lc' = [lc EXCEPT !.fi = file.mt, !.statOk = TRUE]
              /\ pc' = [pc EXCEPT ![c] = "lc_open"]
  /\ UNCHANGED <<variant, envVars, config, lastModTime, poolVars, statVars,
                 statsOn, crashed>>

\* LC_Open as it would be if a failed parse recorded the modification time.
LC_OpenMarkOnFailure(c) ==
  /\ Running
  /\ pc[c] = "lc_open"
  /\ IF file.content.is # "json"
       THEN /\ lc' = [lc EXCEPT !.ret = FALSE]
            /\ lastModTime' = lc.fi
            /\ pc' = [pc EXCEPT ![c] = "lc_ret"]
       ELSE /\ lc' = [lc EXCEPT !.new = file.content.cfg]
            /\ lastModTime' = lastModTime
            /\ pc' = [pc EXCEPT ![c] = "lc_store"]
  /\ UNCHANGED <<variant, envVars, config, poolVars, statVars, statsOn,
                 crashed>>

\* LC_Open as it would be if the decoder wrote into the global config: text
\* that does not parse leaves it blank.
LC_OpenDecodeInPlace(c) ==
  /\ Running
  /\ pc[c] = "lc_open"
  /\ IF file.content.is # "json"
       THEN /\ lc' = [lc EXCEPT !.ret = FALSE]
            /\ config' = IF file.content = Missing THEN config ELSE ZeroConfig
            /\ pc' = [pc EXCEPT ![c] = "lc_ret"]
       ELSE /\ lc' = [lc EXCEPT !.new = file.content.cfg]
            /\ config' = config
            /\ pc' = [pc EXCEPT ![c] = "lc_store"]
  /\ UNCHANGED <<variant, envVars, lastModTime, poolVars, statVars, statsOn,
                 crashed>>

\* os.Open and decoder.Decode into the local newConfig.
LC_Open(c) ==
  /\ Running
  /\ pc[c] = "lc_open"
  /\ IF file.content.is # "json"
       THEN /\ lc' = [lc EXCEPT !.ret = FALSE]
            /\ pc' = [pc EXCEPT ![c] = "lc_ret"]
       ELSE /\ lc' = [lc EXCEPT !.new = file.content.cfg]
            /\ pc' = [pc EXCEPT ![c] = "lc_store"]
  /\ UNCHANGED <<variant, envVars, config, lastModTime, poolVars, statVars,
                 statsOn, crashed>>

\* LC_Store as it would be if lastModTime were not updated.
LC_StoreNoMarker(c) ==
  /\ Running
  /\ pc[c] = "lc_store"
  /\ config' = lc.new
  /\ lc' = [lc EXCEPT !.ret = TRUE]
  /\ pc' = [pc EXCEPT ![c] = "lc_ret"]
  /\ UNCHANGED <<variant, envVars, lastModTime, poolVars, statVars, statsOn,
                 crashed>>

\* configLock.Lock(); config = newConfig; configLock.Unlock();
\* lastModTime = fileInfo.ModTime(); return true.
\* Every other access to config under the lock is a single read
\* (worker, W_ReadURL), so the critical section is one step; lastModTime is
\* touched by LoadConfig alone.
LC_Store(c) ==
  /\ Running
  /\ pc[c] = "lc_store"
  /\ config' = lc.new
  /\ lastModTime' = lc.fi
  /\ lc' = [lc EXCEPT !.ret = TRUE]
  /\ pc' = [pc EXCEPT ![c] = "lc_ret"]
  /\ UNCHANGED <<variant, envVars, poolVars, statVars, statsOn, crashed>>

LoadConfig(c) == LC_Stat(c) \/ LC_Open(c) \/ LC_Store(c)

\* ------------------------------------------------------- RestartWorkers
RWpcs == {"rw_check", "rw_close", "rw_wait", "rw_parked", "rw_reset",
          "rw_active", "rw_make", "rw_loop", "rw_spawn", "rw_prod"}
InRW(c) == pc[c] \in RWpcs

\* The call starts (n0, found and overlap serve the claims about the call).
RwEnter(c) == [i |-> 0, gen |-> 0, n0 |-> config.conc, found |-> FALSE]

Crash(why) ==
  /\ crashed' = why

\* if workersActive {
RW_Check(c) ==
  /\ Running
  /\ pc[c] = "rw_check"
  /\ rw' = [rw EXCEPT ![c].found = workersActive]
  /\ pc' = [pc EXCEPT ![c] =
         IF workersActive
           THEN (IF variant = "rl" THEN "rw_close" ELSE "rw_wait")
           ELSE "rw_reset"]
  /\ UNCHANGED <<variant, envVars, cfgVars, statVars, statsOn, crashed, wg,
                 wgWaiters, workersActive, jobQueue, chans, workers, prod,
                 nGen, spawned, exited, overlap>>

ParkedOn(q) == {p \in Gens : prod[p].st = "parked" /\ prod[p].q = q}

\* close(jobQueue): panics on a nil or an already closed channel; a goroutine
\* blocked in a send on the channel panics when it is closed.
RW_Close(c) ==
  /\ Running
  /\ variant = "rl"
  /\ pc[c] = "rw_close"
  /\ IF jobQueue = 0
       THEN Crash("close of nil channel") /\ UNCHANGED <<chans, pc>>
       ELSE IF chans[jobQueue].closed
         THEN Crash("close of closed channel") /\ UNCHANGED <<chans, pc>>
         ELSE /\ chans' = [chans EXCEPT ![jobQueue].closed = TRUE]
              /\ IF ParkedOn(jobQueue) # {}
                   THEN Crash("send on closed channel") /\ UNCHANGED pc
                   ELSE /\ pc' = [pc EXCEPT ![c] = "rw_wait"]
                        /\ UNCHANGED crashed
  /\ UNCHANGED <<variant, envVars, cfgVars, statVars, statsOn, wg, wgWaiters,
                 workersActive, jobQueue, rw, workers, prod, nGen, spawned,
                 exited, overlap>>

\* RW_Wait as it would be if the call went on without joining the workers.
RW_WaitNoJoin(c) ==
  /\ Running
  /\ pc[c] = "rw_wait"
  /\ pc' = [pc EXCEPT ![c] = "rw_reset"]
  /\ UNCHANGED <<variant, envVars, cfgVars, statVars, statsOn, crashed, wg,
                 wgWaiters, workersActive, jobQueue, chans, rw, workers, prod,
                 nGen, spawned, exited, overlap>>

\* workerWg.Wait(): returns at once when the counter is zero, else registers
\* the caller as a waiter and parks it until a Done brings the counter to zero.
RW_Wait(c) ==
  /\ Running
  /\ pc[c] = "rw_wait"
  /\ IF wg = 0
       THEN /\ pc' = [pc EXCEPT ![c] = "rw_reset"]
            /\ UNCHANGED wgWaiters
       ELSE /\ pc' = [pc EXCEPT ![c] = "rw_parked"]
            /\ wgWaiters' = wgWaiters \cup {c}
  /\ UNCHANGED <<variant, envVars, cfgVars, statVars, statsOn, crashed, wg,
                 workersActive, jobQueue, chans, rw, workers, prod, nGen,
                 spawned, exited, overlap>>

\* workerWg = sync.WaitGroup{}: the one global WaitGroup is overwritten, its
\* counter and its registered waiters with it.  The new generation begins.
RW_Reset(c) ==
  /\ Running
  /\ pc[c] = "rw_reset"
  /\ nGen < MaxGen
  /\ wg' = 0
  /\ wgWaiters' = {}
  /\ nGen' = nGen + 1
  /\ rw' = [rw EXCEPT ![c].gen = nGen + 1]
  /\ pc' = [pc EXCEPT ![c] = "rw_active"]
  /\ UNCHANGED <<variant, envVars, cfgVars, statVars, statsOn, crashed,
                 workersActive, jobQueue, chans, workers, prod, spawned,
                 exited, overlap>>

\* workersActive = true
RW_Active(c) ==
  /\ Running
  /\ pc[c] = "rw_active"
  /\ workersActive' = TRUE
  /\ pc' = [pc EXCEPT ![c] = IF variant = "rl" THEN "rw_make" ELSE "rw_loop"]
  /\ UNCHANGED <<variant, envVars, cfgVars, statVars, statsOn, crashed, wg,
                 wgWaiters, jobQueue, chans, rw, workers, prod, nGen, spawned,
                 exited, overlap>>

\* jobQueue = make(chan struct{}, config.Concurrency): config is read
\* without the lock; a negative size panics.
RW_Make(c) ==
  /\ Running
  /\ variant = "rl"
  /\ pc[c] = "rw_make"
  /\ IF config.conc < 0
       THEN Crash("makechan: size out of range")
            /\ UNCHANGED <<chans, jobQueue, pc>>
       ELSE /\ chans' = [chans EXCEPT ![rw[c].gen] =
                   [made |-> TRUE, cap |-> config.conc, len |-> 0,
                    closed |-> FALSE]]
            /\ jobQueue' = rw[c].gen
            /\ pc' = [pc EXCEPT ![c] = "rw_loop"]
            /\ UNCHANGED crashed
  /\ UNCHANGED <<variant, envVars, cfgVars, statVars, statsOn, wg, wgWaiters,
                 workersActive, rw, workers, prod, nGen, spawned, exited,
                 overlap>>

\* for i := 0; i < config.Concurrency; i++: the condition, which reads config
\* without the lock on every iteration.
RW_Loop(c) ==
  /\ Running
  /\ pc[c] = "rw_loop"
  /\ pc' = [pc EXCEPT ![c] =
         IF rw[c].i < config.conc THEN "rw_spawn"
         ELSE IF variant = "rl" THEN "rw_prod" ELSE "rw_done"]
  /\ UNCHANGED <<variant, envVars, cfgVars, statVars, statsOn, crashed,
                 poolVars>>

\* A worker as the go statement leaves it: in the rate-limited variant it has
\* yet to evaluate jobQueue for its range loop.
NewWorker(g) ==
  [pc |-> IF variant = "rl" THEN "start" ELSE "url",
   gen |-> g, q |-> 0, url |-> "", i |-> 0]

\* workerWg.Add(1); go worker(client, &workerWg); i++
RW_Spawn(c) ==
  /\ Running
  /\ pc[c] = "rw_spawn"
  /\ wg' = wg + 1
  /\ workers' = workers (+) SetToBag({NewWorker(rw[c].gen)})
  /\ spawned' = [spawned EXCEPT ![rw[c].gen] = @ + 1]
  /\ rw' = [rw EXCEPT ![c].i = @ + 1]
  /\ pc' = [pc EXCEPT ![c] = "rw_loop"]
  /\ UNCHANGED <<variant, envVars, cfgVars, statVars, statsOn, crashed,
                 wgWaiters, workersActive, jobQueue, chans, prod, nGen,
                 exited, overlap>>

\* go func() { for { jobQueue <- struct{}{} } }()
RW_Prod(c) ==
  /\ Running
  /\ variant = "rl"
  /\ pc[c] = "rw_prod"
  /\ prod' = [prod EXCEPT ![rw[c].gen] = [st |-> "idle", q |-> 0]]
  /\ pc' = [pc EXCEPT ![c] = "rw_done"]
  /\ UNCHANGED <<variant, envVars, cfgVars, statVars, statsOn, crashed, wg,
                 wgWaiters, workersActive, jobQueue, chans, rw, workers, nGen,
                 spawned, exited, overlap>>

RestartWorkers(c) ==
  \/ RW_Check(c) \/ RW_Close(c) \/ RW_Wait(c) \/ RW_Reset(c) \/ RW_Active(c)
  \/ RW_Make(c) \/ RW_Loop(c) \/ RW_Spawn(c) \/ RW_Prod(c)

\* ------------------------------------------------- main and MonitorConfig
\* main, after LoadConfig(): go MonitorConfig(); go LogStats(); and the call
\* of RestartWorkers().
Main_Start ==
  /\ Running
  /\ pc["main"] = "lc_ret"
  /\ pc' = [pc EXCEPT !["main"] = "rw_check", !["mon"] = "tick"]
  /\ statsOn' = TRUE
  /\ rw' = [rw EXCEPT !["main"] = RwEnter("main")]
  /\ lc' = NoLoad
  /\ UNCHANGED <<variant, envVars, config, lastModTime, statVars, crashed, wg,
                 wgWaiters, workersActive, jobQueue, chans, workers, prod,
                 nGen, spawned, exited, overlap>>

\* main: RestartWorkers has returned; select {}.
Main_Select ==
  /\ Running
  /\ pc["main"] = "rw_done"
  /\ pc' = [pc EXCEPT !["main"] = "select"]
  /\ rw' = [rw EXCEPT !["main"] = NoCall]
  /\ UNCHANGED <<variant, envVars, cfgVars, statVars, statsOn, crashed, wg,
                 wgWaiters, workersActive, jobQueue, chans, workers, prod,
                 nGen, spawned, exited, overlap>>

\* MonitorConfig: for range ticker.C { if LoadConfig() ...
Mon_Tick ==
  /\ Running
  /\ pc["mon"] = "tick"
  /\ pc' = [pc EXCEPT !["mon"] = "lc_stat"]
  /\ lc' = LcEnter
  /\ UNCHANGED <<variant, envVars, config, lastModTime, statVars, statsOn,
                 crashed, poolVars>>

\* MonitorConfig: LoadConfig has returned; RestartWorkers() when it
\* returned true.
Mon_AfterLoad ==
  /\ Running
  /\ pc["mon"] = "lc_ret"
  /\ IF lc.ret
       THEN /\ pc' = [pc EXCEPT !["mon"] = "rw_check"]
            /\ rw' = [rw EXCEPT !["mon"] = RwEnter("mon")]
            /\ overlap' = (overlap \/ InRW("main"))
       ELSE /\ pc' = [pc EXCEPT !["mon"] = "tick"]
            /\ UNCHANGED <<rw, overlap>>
  /\ lc' = NoLoad
  /\ UNCHANGED <<variant, envVars, config, lastModTime, statVars, statsOn,
                 crashed, wg,
                 wgWaiters, workersActive, jobQueue, chans, workers, prod,
                 nGen, spawned, exited>>

\* MonitorConfig: RestartWorkers has returned; the next tick.
Mon_Restarted ==
  /\ Running
  /\ pc["mon"] = "rw_done"
  /\ pc' = [pc EXCEPT !["mon"] = "tick"]
  /\ rw' = [rw EXCEPT !["mon"] = NoCall]
  /\ UNCHANGED <<variant, envVars, cfgVars, statVars, statsOn, crashed, wg,
                 wgWaiters, workersActive, jobQueue, chans, workers, prod,
                 nGen, spawned, exited, overlap>>

\* --------------------------------------------------------------- worker
\* Workers in the same position with the same locals are interchangeable:
\* the bag holds how many there are of each.  Step(w, v): one worker in
\* state w moves to state v.
Step(w, v) == (workers (-) SetToBag({w})) (+) SetToBag({v})

\* for range jobQueue: the range expression, the global jobQueue, is
\* evaluated once, when the worker first runs.
W_Start(w) ==
  /\ Running
  /\ variant = "rl"
  /\ w.pc = "start"
  /\ workers' = Step(w, [w EXCEPT !.pc = "recv", !.q = jobQueue])
  /\ UNCHANGED <<variant, envVars, cfgVars, statVars, statsOn, crashed, pc,
                 wg, wgWaiters, workersActive, jobQueue, chans, rw, prod,
                 nGen, spawned, exited, overlap>>

\* One receive of the range loop.  A buffered element is taken (and a
\* producer blocked in a send, if any, puts its element in the freed place);
\* on an empty channel the element of a blocked producer is taken directly;
\* on an empty closed channel the loop ends and the deferred wg.Done is next.
\* A receive from an empty open channel, or from a nil one, blocks.
W_Recv(w) ==
  /\ Running
  /\ variant = "rl"
  /\ w.pc = "recv"
  /\ w.q # 0
  /\ \/ /\ ParkedOn(w.q) # {}
        /\ \E p \in ParkedOn(w.q) :
             prod' = [prod EXCEPT ![p] = [st |-> "idle", q |-> 0]]
        /\ workers' = Step(w, [w EXCEPT !.pc = "url"])
        /\ UNCHANGED chans
     \/ /\ ParkedOn(w.q) = {}
        /\ chans[w.q].len > 0
        /\ chans' = [chans EXCEPT ![w.q].len = @ - 1]
        /\ workers' = Step(w, [w EXCEPT !.pc = "url"])
        /\ UNCHANGED prod
     \/ /\ ParkedOn(w.q) = {}
        /\ chans[w.q].len = 0
        /\ chans[w.q].closed
        /\ workers' = Step(w, [w EXCEPT !.pc = "done"])
        /\ UNCHANGED <<chans, prod>>
  /\ UNCHANGED <<variant, envVars, cfgVars, statVars, statsOn, crashed, pc,
                 wg, wgWaiters, workersActive, jobQueue, rw, nGen, spawned,
                 exited, overlap>>

\* configLock.RLock(); url := config.TargetURL; configLock.RUnlock();
\* http.NewRequest("GET", url, nil): on an error, continue.
W_ReadURL(w) ==
  /\ Running
  /\ w.pc = "url"
  /\ workers' = Step(w,
       IF Malformed(config.url)
         THEN [w EXCEPT !.pc = IF variant = "rl" THEN "recv" ELSE "url"]
         ELSE [w EXCEPT !.pc = "do", !.url = config.url, !.i = 0])
  /\ UNCHANGED <<variant, envVars, cfgVars, statVars, statsOn, crashed, pc,
                 wg, wgWaiters, workersActive, jobQueue, chans, rw, prod,
                 nGen, spawned, exited, overlap>>

\* AfterFailure as it would be with the retry loop's bound off by one.
AfterFailureOffByOne(w, i) ==
  IF variant = "rl"
    THEN (IF i <= maxRetries THEN [w EXCEPT !.i = i]
          ELSE [w EXCEPT !.pc = "recv", !.url = "", !.i = 0])
    ELSE [w EXCEPT !.pc = "url", !.url = ""]

\* AfterFailure as it would be if a request that failed on every attempt
\* ended the worker.
AfterFailureExit(w, i) ==
  IF variant = "rl"
    THEN (IF i < maxRetries THEN [w EXCEPT !.i = i]
          ELSE [w EXCEPT !.pc = "done", !.url = "", !.i = 0])
    ELSE [w EXCEPT !.pc = "done", !.url = ""]

\* The worker after an attempt that failed, i being the number of failed
\* attempts so far: the rate-limited variant tries again while
\* i < maxRetries and then goes on to the next job (the sleeps touch nothing
\* shared); the simple variant's continue starts the next request.
AfterFailure(w, i) ==
  IF variant = "rl"
    THEN (IF i < maxRetries THEN [w EXCEPT !.i = i]
          ELSE [w EXCEPT !.pc = "recv", !.url = "", !.i = 0])
    ELSE [w EXCEPT !.pc = "url", !.url = ""]

\* The worker after an attempt without a transport error (break, in the
\* rate-limited variant, which leaves i as it is).
AfterSuccess(w) ==
  [w EXCEPT !.pc = IF variant = "rl" THEN "recv" ELSE "url", !.url = "",
            !.i = 0]

\* client.Do(req) and what follows it.  ok: no transport error, and then
\* resp.Body.Close(); atomic.AddUint64(&reqCounter, 1).  Otherwise the error
\* is logged and, in the rate-limited variant, i++ follows the back-off
\* sleep.
W_Do(w, ok) ==
  /\ Running
  /\ w.pc = "do"
  /\ IF ok
       THEN /\ completions < MaxReq
            /\ reqCounter' = reqCounter + 1
            /\ completions' = completions + 1
            /\ workers' = Step(w, AfterSuccess(w))
       ELSE /\ workers' = Step(w, AfterFailure(w, w.i + 1))
            /\ UNCHANGED <<reqCounter, completions>>
  /\ UNCHANGED <<variant, envVars, cfgVars, reported, msVars, statsOn,
                 crashed, pc, wg, wgWaiters, workersActive, jobQueue, chans,
                 rw, prod, nGen, spawned, exited, overlap>>

Parked == {c \in Callers : pc[c] = "rw_parked"}

\* The goroutines a Done that brings the counter to zero wakes: one per
\* registered waiter, among those parked on the WaitGroup's semaphore (a
\* caller whose registration RW_Reset erased is still parked there).
Woken == {R \in SUBSET Parked :
            Cardinality(R) = IF Cardinality(wgWaiters) < Cardinality(Parked)
                               THEN Cardinality(wgWaiters)
                               ELSE Cardinality(Parked)}

\* defer wg.Done(): the counter of the global workerWg goes down by one (a
\* negative counter panics); at zero the registered waiters are released.
W_Done(w) ==
  /\ Running
  /\ variant = "rl"
  /\ w.pc = "done"
  /\ IF wg = 0
       THEN /\ Crash("sync: negative WaitGroup counter")
            /\ UNCHANGED <<wg, wgWaiters, pc, workers, exited>>
       ELSE /\ wg' = wg - 1
            /\ workers' = workers (-) SetToBag({w})
            /\ exited' = [exited EXCEPT ![w.gen] = @ + 1]
            /\ IF wg = 1
                 THEN /\ wgWaiters' = {}
                      /\ \E R \in Woken :
                           pc' = [c \in Callers |->
                                    IF c \in R THEN "rw_reset" ELSE pc[c]]
                 ELSE UNCHANGED <<wgWaiters, pc>>
            /\ UNCHANGED crashed
  /\ UNCHANGED <<variant, envVars, cfgVars, statVars, statsOn, workersActive,
                 jobQueue, chans, rw, prod, nGen, spawned, overlap>>

\* ------------------------------------------------------------- producer
\* jobQueue <- struct{}{}: the global jobQueue is read anew for every send.
\* A send on a closed channel panics; with room in the buffer the element is
\* queued; otherwise the producer blocks in the send (for ever, on nil).
P_Send(p) ==
  /\ Running
  /\ variant = "rl"
  /\ prod[p].st = "idle"
  /\ IF jobQueue # 0 /\ chans[jobQueue].closed
       THEN Crash("send on closed channel") /\ UNCHANGED <<chans, prod>>
       ELSE IF jobQueue # 0 /\ chans[jobQueue].len < chans[jobQueue].cap
         THEN /\ chans' = [chans EXCEPT ![jobQueue].len = @ + 1]
              /\ UNCHANGED <<prod, crashed>>
         ELSE /\ prod' = [prod EXCEPT ![p] = [st |-> "parked", q |-> jobQueue]]
              /\ UNCHANGED <<chans, crashed>>
  /\ UNCHANGED <<variant, envVars, cfgVars, statVars, statsOn, pc, wg,
                 wgWaiters, workersActive, jobQueue, rw, workers, nGen,
                 spawned, exited, overlap>>

\* ------------------------------------------------------------- LogStats
\* LogStats as it would be if it loaded the counter and did not clear it.
LogStatsNoClear ==
  /\ Running
  /\ statsOn
  /\ reported' = reported + reqCounter
  /\ reported < MaxReq
  /\ IF reqCounter >= Milestone
       THEN /\ milestones' = milestones + 1
            /\ sinceMilestone' = 0
       ELSE /\ sinceMilestone' = sinceMilestone + reqCounter
            /\ UNCHANGED milestones
  /\ UNCHANGED <<variant, envVars, cfgVars, reqCounter, completions, statsOn,
                 crashed, pc, poolVars>>

\* One tick of LogStats: count := atomic.SwapUint64(&reqCounter, 0); the
\* count is logged; if count >= 100000 the time since startTime is logged and
\* startTime = time.Now().
LogStats ==
  /\ Running
  /\ statsOn
  /\ reported' = reported + reqCounter
  /\ reqCounter' = 0
  /\ IF reqCounter >= Milestone
       THEN /\ milestones' = milestones + 1
            /\ sinceMilestone' = 0
       ELSE /\ sinceMilestone' = sinceMilestone + reqCounter
            /\ UNCHANGED milestones
  /\ UNCHANGED <<variant, envVars, cfgVars, completions, statsOn, crashed, pc,
                 poolVars>>

\* ------------------------------------------------------------------ Next
\* MonitorConfig's ticker first fires 5 seconds after main started it, and
\* main's own RestartWorkers call finds no generation active and so never
\* blocks.  For src/main.go every interleaving of the two is explored all the
\* same; for the rate-limited variant, whose goroutines are too many for
\* that, the first tick is taken to come after main's call has returned.
TickDue == variant = "rl" => pc["main"] = "select"

Next ==
  \/ \E x \in Contents : FileWrite(x)
  \/ \E c \in Callers : LoadConfig(c)
  \/ \E c \in Callers : RestartWorkers(c)
  \/ Main_Start \/ Main_Select
  \/ (TickDue /\ Mon_Tick) \/ Mon_AfterLoad \/ Mon_Restarted
  \/ \E w \in BagToSet(workers) : W_Start(w)
  \/ \E w \in BagToSet(workers) : W_Recv(w)
  \/ \E w \in BagToSet(workers) : W_ReadURL(w)
  \/ \E w \in BagToSet(workers) : W_Do(w, TRUE)
  \/ \E w \in BagToSet(workers) : W_Do(w, FALSE)
  \/ \E w \in BagToSet(workers) : W_Done(w)
  \/ \E p \in Gens : P_Send(p)
  \/ LogStats

Spec == Init /\ [][Next]_vars

\* The Go scheduler runs every goroutine that can run: main, MonitorConfig,
\* LogStats, the workers and the producers each keep taking their steps.
\* Nothing obliges anyone to rewrite config.json.
CallerNext(c) ==
  \/ LoadConfig(c) \/ RestartWorkers(c)
  \/ (c = "main" /\ (Main_Start \/ Main_Select))
  \/ (c = "mon" /\ ((TickDue /\ Mon_Tick) \/ Mon_AfterLoad \/ Mon_Restarted))

WorkerNext ==
  \E w \in BagToSet(workers) :
    \/ W_Start(w) \/ W_Recv(w) \/ W_ReadURL(w) \/ W_Do(w, TRUE)
    \/ W_Do(w, FALSE) \/ W_Done(w)

ProducerNext == \E p \in Gens : P_Send(p)

Fairness ==
  /\ \A c \in Callers : WF_vars(CallerNext(c))
  /\ WF_vars(WorkerNext)
  /\ WF_vars(ProducerNext)
  /\ WF_vars(LogStats)

FairSpec == Spec /\ Fairness

\* ------------------------------------------------ the statistics, at scale
\* The requests the workers complete between two ticks of LogStats, taken
\* together: n times client.Do without error and atomic.AddUint64.
BurstSizes == {40000, 60000, 100000}

Burst(n) ==
  /\ Running
  /\ workers # EmptyBag
  /\ ~Malformed(config.url)
  /\ completions + n <= MaxBurst
  /\ reqCounter' = reqCounter + n
  /\ completions' = completions + n
  /\ UNCHANGED <<variant, envVars, cfgVars, reported, msVars, statsOn,
                 crashed, pc, poolVars>>

\* The program from its start to a pool at work under LogStats: main's
\* LoadConfig and RestartWorkers, then the workers' requests in bursts and
\* the ticks of LogStats.
StatsNext ==
  \/ LC_Stat("main") \/ LC_Open("main") \/ LC_Store("main")
  \/ Main_Start
  \/ RW_Check("main") \/ RW_Reset("main") \/ RW_Active("main")
  \/ RW_Make("main") \/ RW_Loop("main") \/ RW_Spawn("main")
  \/ RW_Prod("main")
  \/ Main_Select
  \/ \E n \in BurstSizes : Burst(n)
  \/ LogStats

StatsSpec == Init /\ [][StatsNext]_vars

\* ---------------------------------------------------------------- claims
LiveWorkers == BagToSet(workers)
LiveGens == {w.gen : w \in LiveWorkers}
NumLive == BagCardinality(workers)

\* The caller has come back from workerWg.Wait() and has not spawned yet.
Joined(c) == rw[c].found /\ pc[c] \in {"rw_reset", "rw_active", "rw_make"}

\* C1: while no two RestartWorkers calls have overlapped, a call that found a
\* generation active is past its join only when every worker spawned before
\* has exited, and the running workers all belong to one generation.
C1_JoinBeforeNextGeneration ==
  ~overlap =>
    /\ Cardinality(LiveGens) <= 1
    /\ \A c \in Callers : Joined(c) =>
         /\ workers = EmptyBag
         /\ \A g \in Gens : exited[g] = spawned[g]

\* MonitorConfig's call found generation 1 with a worker in it, joined it and
\* has spawned a worker of generation 2.
C1_Witness ==
  /\ ~overlap
  /\ rw["mon"].found
  /\ spawned[1] >= 1
  /\ exited[1] = spawned[1]
  /\ \E w \in LiveWorkers : w.gen = 2

\* C2: the stop-join-then-start sequences of two RestartWorkers calls never
\* interleave: main's call and MonitorConfig's are never in progress together.
C2_RestartsSerialized ==
  ~(InRW("main") /\ InRW("mon"))

\* C3: a RestartWorkers call that started from a concurrency N >= 1 has
\* spawned exactly N workers when it returns, and the call that follows it
\* joins exactly those.
C3_ExactlyNSpawned ==
  \A c \in Callers :
    /\ (pc[c] = "rw_done" /\ rw[c].n0 >= 1) =>
         /\ rw[c].i = rw[c].n0
         /\ spawned[rw[c].gen] = rw[c].n0
    /\ (Joined(c) /\ ~overlap) => \A g \in Gens : exited[g] = spawned[g]

\* C4: in the rate-limited variant, once LoadConfig has returned true to
\* MonitorConfig while a generation is active, the restart completes: the
\* old workers are gone, config.Concurrency workers of the new generation
\* run, and the process has not crashed.
C4_Changed == variant = "rl" /\ pc["mon"] = "lc_ret" /\ lc.ret /\ workersActive
C4_Restarted ==
  /\ Running
  /\ pc["mon"] = "rw_done"
  /\ NumLive = config.conc
  /\ \A w \in LiveWorkers : w.gen = rw["mon"].gen
\* C4 (rate-limited variant, fair scheduling): a detected configuration
\* change leads to the monitor's RestartWorkers call having returned with the
\* new generation running and no crash.
C4_RestartCompletes == C4_Changed ~> C4_Restarted

\* C5: in the simple variant, once LoadConfig has returned true to
\* MonitorConfig while a generation with at least one worker is active,
\* RestartWorkers returns with config.Concurrency workers of the new
\* generation running.
C5_Changed ==
  /\ variant = "simple" /\ pc["mon"] = "lc_ret" /\ lc.ret
  /\ workersActive /\ NumLive >= 1 /\ pc["main"] = "select"
C5_Restarted ==
  /\ pc["mon"] = "rw_done"
  /\ NumLive = config.conc
  /\ \A w \in LiveWorkers : w.gen = rw["mon"].gen
\* C5 (simple variant, fair scheduling): a detected configuration change
\* leads to the monitor's RestartWorkers call having returned with the new
\* generation running.
C5_RestartReturns == C5_Changed ~> C5_Restarted

\* C6: the counts LogStats' swaps have returned and the counter's current
\* value add up to the number of requests completed: none lost, none counted
\* twice.
C6_CounterExact == reported + reqCounter = completions

\* Two workers are running, MaxReq requests have completed, and the resets
\* have reported them all.
C6_Witness ==
  /\ NumLive >= 2
  /\ completions = MaxReq
  /\ reported = MaxReq
  /\ reqCounter = 0

\* C7: in the rate-limited variant reqCounter goes up only by one, in the
\* step of a worker whose attempt (its first, second or third) met no
\* transport error and who then goes on to the next job, and goes down only
\* to zero; a worker whose attempt failed tries again while fewer than three
\* have failed, and after the third failure goes on to the next job with
\* reqCounter as it was.
C7_Step ==
  variant = "rl" =>
    /\ reqCounter' \in {reqCounter, reqCounter + 1, 0}
    /\ reqCounter' = reqCounter + 1 =>
         \E w \in LiveWorkers :
           /\ w.pc = "do"
           /\ w.i < maxRetries
           /\ workers' = Step(w, [w EXCEPT !.pc = "recv", !.url = "", !.i = 0])
    /\ \A w \in LiveWorkers : \A v \in BagToSet(workers') :
         (w.pc = "do" /\ v # w /\ workers' = Step(w, v)) =>
            \/ /\ v.pc = "do"
               /\ v.i = w.i + 1
               /\ v.i < maxRetries
               /\ reqCounter' = reqCounter
            \/ /\ v.pc = "recv"
               /\ reqCounter' = reqCounter + 1
            \/ /\ v.pc = "recv"
               /\ w.i = maxRetries - 1
               /\ reqCounter' = reqCounter
\* C7: every step keeps each job within maxRetries attempts and moves
\* reqCounter only by +1 on a success or to 0 on a stats reset.
C7_RetryCeiling == [][C7_Step]_vars

\* A worker of the rate-limited variant is about to make its third attempt,
\* and a request has been counted.
C7_Witness ==
  /\ variant = "rl"
  /\ reqCounter >= 1
  /\ \E w \in LiveWorkers : w.pc = "do" /\ w.i = maxRetries - 1

\* C8: a LoadConfig call that returns false has left config and lastModTime
\* as they were when it was called.
C8_FailedLoadKeepsState ==
  \A c \in Callers :
    (pc[c] = "lc_ret" /\ ~lc.ret) =>
       /\ config = lc.cfg0
       /\ lastModTime = lc.lm0

\* MonitorConfig's call found config.json changed and unparsable while a
\* configuration read earlier is stored.
C8_Witness ==
  /\ pc["mon"] = "lc_ret"
  /\ ~lc.ret
  /\ lc.statOk
  /\ lc.fi # lc.lm0
  /\ file.content = Garbage
  /\ config \in Configs

\* C9: after a successful load, a LoadConfig call that finds config.json's
\* modification time equal to lastModTime returns false (so MonitorConfig
\* does not restart the workers) and leaves config and lastModTime unchanged.
C9_UnchangedMarkerNoReload ==
  \A c \in Callers :
    (pc[c] = "lc_ret" /\ lc.statOk /\ lc.lm0 # 0 /\ lc.fi = lc.lm0) =>
       /\ ~lc.ret
       /\ config = lc.cfg0
       /\ lastModTime = lc.lm0

\* MonitorConfig's call found the modification time it had stored.
C9_Witness ==
  /\ pc["mon"] = "lc_ret"
  /\ lc.statOk
  /\ lc.lm0 # 0
  /\ lc.fi = lc.lm0

C11_OneProducerPerGeneration ==
  (variant = "rl" /\ Running) =>
    /\ Cardinality({p \in Gens : prod[p].st # "none"}) <= 1
    /\ \A p \in Gens : prod[p].st = "parked" => prod[p].q \in {0, p}

\* C12: from the moment LoadConfig has stored a configuration with another
\* target_url until MonitorConfig begins the restart, no worker of the
\* generation spawned from the previous configuration has a request to the
\* new target in progress.
C12_CountAndTargetTogether ==
  ( /\ pc["mon"] = "lc_ret"
    /\ lc.ret
    /\ pc["main"] = "select"
    /\ lc.cfg0 \in Configs
    /\ lc.cfg0.url # config.url ) =>
      \A w \in LiveWorkers : w.pc = "do" => w.url # config.url

\* C13: a stored configuration has a positive concurrency, and a
\* RestartWorkers call that has begun a generation started from a positive
\* concurrency, the call main makes at startup included.
C13_PositiveConcurrency ==
  /\ lastModTime # 0 => config.conc > 0
  /\ \A c \in Callers :
       pc[c] \in {"rw_active", "rw_make", "rw_loop", "rw_spawn", "rw_prod",
                  "rw_done"} => rw[c].n0 > 0

C15_Step ==
  /\ lastModTime' # lastModTime =>
       \E c \in Callers :
         /\ pc[c] = "lc_store"
         /\ pc'[c] = "lc_ret"
         /\ lc'.ret
         /\ lastModTime' = lc.fi
  /\ \A c \in Callers :
       /\ (pc[c] = "lc_stat" /\ pc'[c] # "lc_stat"
             /\ file.content # Missing /\ file.mt # lastModTime) =>
            pc'[c] = "lc_open"
       /\ (pc[c] = "lc_open" /\ pc'[c] = "lc_ret") =>
            /\ ~lc'.ret
            /\ lastModTime' = lastModTime
            /\ lastModTime' # lc.fi
       /\ (pc[c] = "lc_open" /\ pc'[c] # "lc_open"
             /\ file.content.is = "json") =>
            /\ pc'[c] = "lc_store"
            /\ lc'.new = file.content.cfg
       /\ (pc[c] = "lc_store" /\ pc'[c] # "lc_store") =>
            /\ lc'.ret
            /\ config' = lc.new
            /\ lastModTime' = lc.fi
\* C15: lastModTime changes only in the step that ends a LoadConfig call
\* with true, and becomes the modification time that call read; a call whose
\* parse fails leaves lastModTime different from the file's modification
\* time, so a call that finds the file there with that modification time goes
\* on to parse it, and a call that parses valid content stores it and returns
\* true.
C15_MarkerOnlyOnSuccess == [][C15_Step]_vars

\* Every LoadConfig call before this one failed (lastModTime was still the
\* zero time), config.json has been rewritten since startup, and
\* MonitorConfig's call parsed it, stored it and returned true.
C15_Witness ==
  /\ pc["mon"] = "lc_ret"
  /\ lc.ret
  /\ lc.lm0 = 0
  /\ lc.fi > 1
  /\ lastModTime = lc.fi
  /\ config = lc.new

\* The workers of bag b that took a job from queue q and are at work on it.
Taking(b, q) ==
  LET S == {w \in BagToSet(b) : w.q = q /\ w.pc \in {"url", "do"}}
  IN  IF S = {} THEN 0 ELSE BagCardinality([w \in S |-> b[w]])

C14_Step ==
  \A q \in Gens : chans[q].closed => Taking(workers', q) <= Taking(workers, q)
\* C14: in the rate-limited variant, once a queue is closed no worker that
\* ranges over it begins another request: the number of its workers at work
\* on a job never goes up.
C14_ClosedQueueStopsIntake == [][C14_Step]_vars

C17_Step ==
  /\ reported' = reported => milestones' = milestones
  /\ reported' # reported =>
       /\ milestones' \in {milestones, milestones + 1}
       /\ milestones' = milestones + 1 <=>
            sinceMilestone + reqCounter >= Milestone
\* C17: a tick of LogStats restarts the milestone clock exactly when the
\* requests counted since the previous milestone, this tick's count
\* included, have reached 100000; no other step touches the clock.
C17_MilestoneEveryBatch == [][C17_Step]_vars

\* C18: in the rate-limited variant the process never panics with a send on a
\* closed jobQueue: no producer is blocked in a send on the queue when
\* RestartWorkers closes it, and none sends on it afterwards.
C18_NoSendOnClosedQueue == crashed # "send on closed channel"

\* C19: workerWg's counter is the number of workers spawned that have not run
\* Done, RestartWorkers overwrites workerWg only when the counter is zero,
\* and no Done brings the counter below zero.
C19_WaitGroupCountsLive ==
  /\ wg = NumLive
  /\ \A c \in Callers : pc[c] = "rw_reset" => wg = 0
  /\ crashed # "sync: negative WaitGroup counter"

====
